---- MODULE Spec2Model ----
(***************************************************************************)
(* A model of the Lwm2m module (src/big_lwm2m.py): the registry of         *)
(* objects, instances and resources, the typed value cell of a data        *)
(* resource, the change notification the cell sends to the client, the     *)
(* lookup of a resource by uri, the start of the engine on the caller's    *)
(* thread or on a thread of its own, and the callbacks the engine makes.   *)
(*                                                                         *)
(* Python objects are modelled by handles: the position of the object in   *)
(* the sequence res, insts or objs.  Two containers that hold the same     *)
(* handle hold the same Python object.                                     *)
(***************************************************************************)
EXTENDS Integers, Sequences, FiniteSets, TLC

VARIABLES
    scope,       \* which universe of inputs this run draws from (a bound)
    res,         \* the resource objects constructed so far
    insts,       \* the Instance objects constructed so far
    objs,        \* the Object objects constructed so far
    my_objects,  \* Client.my_objects: object id -> handle of the Object
    engine,      \* TRUE once Client._wakaama_client exists
    wired,       \* the objects and resources whose callbacks the engine holds
    thread,      \* the thread StartLwm2mThread starts: its position and argument
    app,         \* the position of the application thread inside a value setter
    last         \* the call made last and what it did

vars == <<scope, res, insts, objs, my_objects, engine, wired, thread, app, last>>

-----------------------------------------------------------------------------
(* Bounds of the model.                                                    *)

\* Resource objects the application constructs in scope "instance".
MaxRes == 2
\* Instance objects the application constructs in scope "object".
MaxInst == 2
\* Object objects the application constructs in scope "client".
MaxObj == 2
\* Longest list handed to a register call.
MaxBatch == 2
\* Largest object, instance or resource id; ids are 0..MaxId.
MaxId == 1

Ids == 0..MaxId

-----------------------------------------------------------------------------
(* Python values.  A value is a record of its type and a payload, always a *)
(* sequence of naturals: an int n is <<n>>, a float is the number of its   *)
(* halves (1.5 is <<3>>), a bool is <<0>> or <<1>>, a str or a bytearray   *)
(* is the sequence of its character codes, None is <<>>.                   *)

PyNone == [t |-> "none", v |-> <<>>]
PyInt(n) == [t |-> "int", v |-> <<n>>]
PyFloat(h) == [t |-> "float", v |-> <<h>>]
PyBool(b) == [t |-> "bool", v |-> <<IF b THEN 1 ELSE 0>>]
PyStr(s) == [t |-> "str", v |-> s]
PyBytes(s) == [t |-> "bytearray", v |-> s]
\* The outcome of a conversion that raised.
Raised == [t |-> "raised", v |-> <<>>]

\* Character codes used below.
Ch == [zero |-> 48, nine |-> 57, dot |-> 46, five |-> 53, X |-> 88, slash |-> 47]

RECURSIVE Digits(_)
\* The decimal digits of a natural number, as character codes.
Digits(n) == IF n < 10 THEN <<Ch.zero + n>> ELSE Digits(n \div 10) \o <<Ch.zero + (n % 10)>>

IsDigits(s) == Len(s) > 0 /\ \A k \in 1..Len(s) : s[k] >= Ch.zero /\ s[k] <= Ch.nine

RECURSIVE DigitsValue(_)
DigitsValue(s) ==
    IF Len(s) = 0 THEN 0
    ELSE 10 * DigitsValue(SubSeq(s, 1, Len(s) - 1)) + (s[Len(s)] - Ch.zero)

\* "None", "True", "False"
StrNone == <<78, 111, 110, 101>>
StrTrue == <<84, 114, 117, 101>>
StrFalse == <<70, 97, 108, 115, 101>>

\* str(x): every value has a string form; str(bytearray) is its bytes.
ToStr(x) ==
    CASE x.t = "none" -> PyStr(StrNone)
      [] x.t = "int" -> PyStr(Digits(x.v[1]))
      [] x.t = "float" ->
            PyStr(Digits(x.v[1] \div 2) \o <<Ch.dot>>
                  \o (IF x.v[1] % 2 = 0 THEN <<Ch.zero>> ELSE <<Ch.five>>))
      [] x.t = "bool" -> PyStr(IF x.v[1] = 1 THEN StrTrue ELSE StrFalse)
      [] x.t = "str" -> x
      [] x.t = "bytearray" -> PyStr(x.v)

\* int() of a string of decimal digits; any other string raises (the
\* strings of the model carry no sign and no white space).
ParseInt(s) == IF IsDigits(s) THEN PyInt(DigitsValue(s)) ELSE Raised

\* int(x): a float is truncated, a bool is 0 or 1, a str or bytearray is
\* parsed, None raises.
ToInt(x) ==
    CASE x.t = "none" -> Raised
      [] x.t = "int" -> x
      [] x.t = "float" -> PyInt(x.v[1] \div 2)
      [] x.t = "bool" -> PyInt(x.v[1])
      [] x.t = "str" -> ParseInt(x.v)
      [] x.t = "bytearray" -> ParseInt(x.v)

\* float() of a string: digits, or digits followed by ".0" or ".5" (the
\* model's floats are the multiples of one half).
ParseFloat(s) ==
    IF IsDigits(s) THEN PyFloat(2 * DigitsValue(s))
    ELSE IF Len(s) > 2 /\ IsDigits(SubSeq(s, 1, Len(s) - 2)) /\ s[Len(s) - 1] = Ch.dot
            /\ s[Len(s)] \in {Ch.zero, Ch.five}
         THEN PyFloat(2 * DigitsValue(SubSeq(s, 1, Len(s) - 2))
                      + (IF s[Len(s)] = Ch.five THEN 1 ELSE 0))
    ELSE Raised

\* float(x)
ToFloat(x) ==
    CASE x.t = "none" -> Raised
      [] x.t = "int" -> PyFloat(2 * x.v[1])
      [] x.t = "float" -> x
      [] x.t = "bool" -> PyFloat(2 * x.v[1])
      [] x.t = "str" -> ParseFloat(x.v)
      [] x.t = "bytearray" -> ParseFloat(x.v)

\* bool(x): the truth value; never raises.
ToBool(x) ==
    CASE x.t = "none" -> PyBool(FALSE)
      [] x.t \in {"int", "float", "bool"} -> PyBool(x.v[1] # 0)
      [] x.t \in {"str", "bytearray"} -> PyBool(Len(x.v) > 0)

RECURSIVE Zeros(_)
Zeros(n) == IF n = 0 THEN <<>> ELSE <<0>> \o Zeros(n - 1)

\* bytearray(x): an int n (a bool is an int) gives n zero bytes, a str or
\* bytearray its bytes; a float and None raise.
ToBytes(x) ==
    CASE x.t = "none" -> Raised
      [] x.t \in {"int", "bool"} -> PyBytes(Zeros(x.v[1]))
      [] x.t = "float" -> Raised
      [] x.t \in {"str", "bytearray"} -> PyBytes(x.v)

-----------------------------------------------------------------------------
(* The data types of the module and the conversion each one stands for.    *)

\* The members of DATA_TYPES (TIME is the same constant as INT), and one
\* value, "OTHER", that is none of them.
DATA_TYPES == {"STRING", "INT", "FLOAT", "BOOL", "OPAQUE", "NONE"}
AnyDataType == DATA_TYPES \cup {"OTHER"}

\* type_lookup of DataResource.__init__: the Python type of a data type.
\* NONE maps to None, which is not callable.
type_lookup ==
    [STRING |-> "str", INT |-> "int", FLOAT |-> "float", BOOL |-> "bool",
     OPAQUE |-> "bytearray", NONE |-> "none"]

\* Coerce with FLOAT looked up as int.
Coerce_FloatAsInt(data_type, x) ==
    CASE type_lookup[data_type] = "str" -> ToStr(x)
      [] type_lookup[data_type] = "int" -> ToInt(x)
      [] type_lookup[data_type] = "float" -> ToInt(x)
      [] type_lookup[data_type] = "bool" -> ToBool(x)
      [] type_lookup[data_type] = "bytearray" -> ToBytes(x)
      [] type_lookup[data_type] = "none" -> Raised

\* self._data_type(set_val): the candidate converted by the resource's type.
Coerce(data_type, x) ==
    CASE type_lookup[data_type] = "str" -> ToStr(x)
      [] type_lookup[data_type] = "int" -> ToInt(x)
      [] type_lookup[data_type] = "float" -> ToFloat(x)
      [] type_lookup[data_type] = "bool" -> ToBool(x)
      [] type_lookup[data_type] = "bytearray" -> ToBytes(x)
      [] type_lookup[data_type] = "none" -> Raised

-----------------------------------------------------------------------------
(* Inputs.                                                                 *)

\* The resource classes of the module; DataResource is the abstract base.
DataClasses == {"ReadResource", "WriteResource", "ReadWriteResource"}
AllClasses == DataClasses \cup {"ExecuteResource", "DataResource"}

\* Values handed to a constructor or to the value setter: None, 0, 1, 1.5,
\* True, "1", "X", bytearray(b"1").
AllCandidates ==
    {PyNone, PyInt(0), PyInt(1), PyFloat(3), PyBool(TRUE),
     PyStr(<<Ch.zero + 1>>), PyStr(<<Ch.X>>), PyBytes(<<Ch.zero + 1>>)}

\* The run's scope says which part of the input space it explores:
\*   "ctor"      one resource of any class, data type and value, outside
\*               any instance;
\*   "cell"      one read-write resource of any data type and value, in one
\*               instance of one object;
\*   "instance"  up to MaxRes resources, read-write INT or execute, in one
\*               instance of one object;
\*   "object"    up to MaxInst instances of one object;
\*   "client"    up to MaxObj objects;
\*   "thread"    one read-write INT resource in one instance of one object,
\*               the client started on a thread of its own, the application
\*               and the engine both setting the value;
\*   "address"   one read-write INT resource, one instance and one object of
\*               any ids, looked up by uri and by index;
\*   "lifecycle" one object, with or without a default instance class, a
\*               create function or a delete function, and up to MaxInst
\*               instances the application makes, without resources, or
\*               the create callback makes, with one, and the delete
\*               callback takes out;
\*   "hooks"     one INT or execute resource of any class, or of a subclass
\*               that defines read, write or execute, in one instance of
\*               one object, the engine calling its callbacks.
Scopes ==
    {"ctor", "cell", "instance", "object", "client", "thread", "address", "lifecycle",
     "hooks"}
Classes ==
    CASE scope = "ctor" -> AllClasses
      [] scope = "instance" -> {"ReadWriteResource", "ExecuteResource"}
      [] scope = "hooks" -> AllClasses \ {"DataResource"}
      [] OTHER -> {"ReadWriteResource"}
\* The functions a subclass of the application can define for the callbacks
\* of its base class to call, and the sets of them the subclasses define.
Overridable(cls) ==
    CASE cls = "ReadResource" -> {"read"}
      [] cls = "WriteResource" -> {"write"}
      [] cls = "ReadWriteResource" -> {"read", "write"}
      [] cls = "ExecuteResource" -> {"execute"}
      [] OTHER -> {}
UserFunctions(cls) == IF scope = "hooks" THEN SUBSET Overridable(cls) ELSE {{}}
DataTypes ==
    CASE scope = "ctor" -> AnyDataType
      [] scope = "cell" -> DATA_TYPES \ {"NONE"}
      [] OTHER -> {"INT"}
Candidates ==
    IF scope \in {"ctor", "cell"} THEN AllCandidates
    ELSE {PyInt(0), PyInt(1), PyStr(<<Ch.X>>)}
InitialValues == IF scope \in {"ctor", "cell"} THEN AllCandidates ELSE {PyInt(0)}
\* Each scope varies the ids of its own layer; the layers it does not
\* explore take one id.
ResourceIds == IF scope \in {"ctor", "instance", "address"} THEN Ids ELSE {0}
InstanceIds == IF scope \in {"cell", "object", "address", "lifecycle"} THEN Ids ELSE {MaxId}
ObjectIds == IF scope \in {"cell", "client", "address", "hooks"} THEN Ids ELSE {MaxId}

\* build_url of the tests: "/".join(str(id) for id in ids), for three ids.
BuildUrl(ids) ==
    Digits(ids[1]) \o <<Ch.slash>> \o Digits(ids[2]) \o <<Ch.slash>> \o Digits(ids[3])
\* A uri as it is, or with a slash before it, after it, or both.
Decorated(uri) ==
    {uri, <<Ch.slash>> \o uri, uri \o <<Ch.slash>>, <<Ch.slash>> \o uri \o <<Ch.slash>>}
\* Strings that are not three integers between slashes: "X", "", "/", "1/1",
\* "1/1/1/1", "1//1", "1/X/1".
Malformed ==
    LET one == Digits(1) sl == <<Ch.slash>> IN
    {<<Ch.X>>, <<>>, sl, one \o sl \o one, one \o sl \o one \o sl \o one \o sl \o one,
     one \o sl \o sl \o one, one \o sl \o <<Ch.X>> \o sl \o one}
\* The strings handed to get_resource, and the ids handed to the index
\* operators.
Uris ==
    IF scope = "address"
    THEN UNION {Decorated(BuildUrl(ids)) : ids \in Ids \X Ids \X Ids} \cup Malformed
    ELSE {}
IndexIds == IF scope = "address" THEN Ids ELSE {}

ResLimit == CASE scope = "instance" -> MaxRes [] scope = "lifecycle" -> 0 [] OTHER -> 1
InstLimit ==
    CASE scope = "ctor" -> 0 [] scope \in {"object", "lifecycle"} -> MaxInst [] OTHER -> 1
\* Whether an object is given a default instance class, and whether its
\* class defines a create function or a delete function.
DefaultInstanceClasses == IF scope = "lifecycle" THEN BOOLEAN ELSE {FALSE}
CreateFunctions == IF scope = "lifecycle" THEN BOOLEAN ELSE {FALSE}
DeleteFunctions == IF scope = "lifecycle" THEN BOOLEAN ELSE {FALSE}
\* The instance ids the engine asks an object to create or to delete.
CreateIds == IF scope = "lifecycle" THEN Ids ELSE {}
ObjLimit == CASE scope = "ctor" -> 0 [] scope = "client" -> MaxObj [] OTHER -> 1

\* An item of a list handed to register that is not of the class the call
\* expects.
Junk == 0

\* The lists handed to a register call: up to MaxBatch items in the scopes
\* that explore a layer of the registry, one item in the others, each a
\* handle of S or Junk.
BatchLimit ==
    IF scope \in {"cell", "thread", "address", "lifecycle", "hooks"} THEN 1 ELSE MaxBatch
Batches(S) == UNION {[1..n -> S \cup {Junk}] : n \in 1..BatchLimit}

-----------------------------------------------------------------------------
(* Objects of the program.                                                 *)

\* The value None of the attributes object_id and instance_id.
NoId == -1

\* The ids handed to ResourceValChanged by the application: None too.
NotifyIds == IF scope = "thread" THEN Ids \cup {NoId} ELSE {}

\* The truth value Python gives an id: None and 0 are false.
Truthy(id) == id # NoId /\ id # 0

\* A Python dict, as a function on the set of its keys.
EmptyDict == [k \in {} |-> 0]
Put(d, k, x) == [j \in DOMAIN d \cup {k} |-> IF j = k THEN x ELSE d[j]]
Values(d) == {d[k] : k \in DOMAIN d}

IsData(r) == r.cls \in DataClasses

\* The class statements of the resource classes: the bases of each class,
\* and the attributes its body defines.
Bases(cls) ==
    CASE cls = "ReadResource" -> {"DataResource"}
      [] cls = "WriteResource" -> {"DataResource"}
      [] cls = "ReadWriteResource" -> {"ReadResource", "WriteResource"}
      [] OTHER -> {}
Defines(cls) ==
    CASE cls = "ExecuteResource" -> {"_execute_callback"}
      [] cls = "DataResource" -> {"value"}
      [] cls = "ReadResource" -> {"_read_callback", "read"}
      [] cls = "WriteResource" -> {"_write_callback", "write"}
      [] OTHER -> {}

RECURSIVE ClassHasAttr(_, _)
\* Attribute lookup that does not look into the base classes.
ClassHasAttr_OwnBody(cls, name) == name \in Defines(cls)

\* Attribute lookup on a class: in its body, then in its bases.
ClassHasAttr(cls, name) ==
    name \in Defines(cls) \/ \E base \in Bases(cls) : ClassHasAttr(base, name)

\* The callbacks the engine is handed for a resource.
Callbacks == {"_read_callback", "_write_callback", "_execute_callback"}

\* hasattr(resource, name): the subclass of the application, then the class.
HasAttr(r, name) == name \in r.user \/ ClassHasAttr(r.cls, name)

\* type(self) is cls: the object is of the class itself, not of a subclass.
TypeIs(r, cls) == r.cls = cls /\ r.user = {}

\* Lines 304-309: what the engine is handed for a resource, its id, its
\* type and, for each callback, whether it got the bound method or None.
Lwm2mResourceBaseClass(r) ==
    [id |-> r.id, type |-> r.wtype,
     read |-> HasAttr(r, "_read_callback"),
     write |-> HasAttr(r, "_write_callback"),
     execute |-> HasAttr(r, "_execute_callback")]

\* Object._wakaama_resources(instance): resource id -> what the engine is
\* handed for the resource registered under it.
wakaama_resources(i) ==
    [resource_id \in DOMAIN insts[i].resources |->
        Lwm2mResourceBaseClass(res[insts[i].resources[resource_id]])]

\* Before the engine exists it holds no callback.
NotWired == [objects |-> {}, resources |-> {}]

\* No thread has been started.
NoThread == [pc |-> "none", objects |-> <<>>]
\* The application is outside the value setter.
Idle == [pc |-> "idle", h |-> 0, set_val |-> PyNone, told |-> FALSE]
AppIdle == app.pc = "idle"

\* ResourceValChanged without the failure of the attribute lookup.
ResourceValChanged_NoGuard(calls) == calls

\* ResourceValChanged that tells the engine twice.
ResourceValChanged_Twice(calls) == IF engine THEN calls \o calls ELSE <<>>

\* Client.ResourceValChanged: the call reaches the engine when
\* _wakaama_client exists; before that the AttributeError is swallowed.
ResourceValChanged(calls) == IF engine THEN calls ELSE <<>>

\* The call the value setter makes on the client when it sees a change:
\* the address it passes and what the cell still holds at that moment.
NotifyCall(r) ==
    [object_id |-> r.object_id, instance_id |-> r.instance_id, id |-> r.id,
     held |-> r.value]

\* ShouldNotify without the comparison of the values.
ShouldNotify_NoCompare(r, set_val) == Truthy(r.instance_id) /\ Truthy(r.object_id)

\* ShouldNotify without the test of the address.
ShouldNotify_NoAddress(r, set_val) == set_val # r.value

\* The test of the value setter for telling the client.
ShouldNotify(r, set_val) ==
    set_val # r.value /\ Truthy(r.instance_id) /\ Truthy(r.object_id)

\* SetValue that stores the candidate before it converts it.
SetValue_StoreFirst(r, candidate) ==
    LET set_val == Coerce(r.wtype, candidate) IN
    IF set_val = Raised
    THEN [err |-> "TypeError", value |-> candidate, calls |-> <<>>]
    ELSE [err |-> "none", value |-> set_val,
          calls |-> IF ShouldNotify(r, set_val) THEN <<NotifyCall(r)>> ELSE <<>>]

\* SetValue with the failure of the conversion swallowed.
SetValue_Swallow(r, candidate) ==
    LET set_val == Coerce(r.wtype, candidate) IN
    IF set_val = Raised
    THEN [err |-> "none", value |-> r.value, calls |-> <<>>]
    ELSE [err |-> "none", value |-> set_val,
          calls |-> IF ShouldNotify(r, set_val) THEN <<NotifyCall(r)>> ELSE <<>>]

\* DataResource.value (setter) on resource r: the error raised, the value
\* the cell holds afterwards and the calls made on the client, in order.
SetValue(r, candidate) ==
    LET set_val == Coerce(r.wtype, candidate) IN
    IF set_val = Raised
    THEN [err |-> "TypeError", value |-> r.value, calls |-> <<>>]
    ELSE [err |-> "none", value |-> set_val,
          calls |-> IF ShouldNotify(r, set_val) THEN <<NotifyCall(r)>> ELSE <<>>]

\* A store into an attribute all resources share.
Store_Shared(h, set_val) == [k \in DOMAIN res |-> [res[k] EXCEPT !.value = set_val]]

\* Line 205, self.__value = set_val: the store into the object's own cell.
Store(h, set_val) == [res EXCEPT ![h].value = set_val]

\* What a call reports in last: the call, the handle of the object it was
\* made on (or that it made, 0 if none), the error it raised, its
\* arguments (of a constructor: cls, id, data_type; of a constructor, a set
\* or a write: candidate; of a register or a start: batch; of any other
\* call: args), what a callback returned (create_callback: ret, any other:
\* out), which functions of the application it invoked, what it passed to
\* each and how the function behaved (hook), the instances the object of a
\* create_callback held when it was called (held), whether it changed the value of
\* the cell, and the calls it made on the client and those that reached the
\* engine.
\* What create_callback returns: None, or the dict of the resources of the
\* new instance, resource id -> resource.
ReturnedNone == [none |-> TRUE, dict |-> EmptyDict]
Returned(dict) == [none |-> FALSE, dict |-> dict]

NoCall ==
    [op |-> "init", h |-> 0, err |-> "none", cls |-> "", id |-> NoId, data_type |-> "",
     candidate |-> PyNone, batch |-> <<>>, args |-> <<>>, changed |-> FALSE,
     calls |-> <<>>, forwarded |-> <<>>, ret |-> ReturnedNone, invoked |-> <<>>,
     passed |-> <<>>, out |-> PyNone, hook |-> "", held |-> EmptyDict]
Report(op, h, err) == [NoCall EXCEPT !.op = op, !.h = h, !.err = err]
WithCalls(report, calls) ==
    [report EXCEPT !.calls = calls, !.forwarded = ResourceValChanged(calls)]

-----------------------------------------------------------------------------
(* Construction.                                                           *)

\* ExecuteResource.__init__(resource_id)
ExecuteResource(resource_id) ==
    [cls |-> "ExecuteResource", id |-> resource_id, wtype |-> "NONE", value |-> PyNone,
     object_id |-> NoId, instance_id |-> NoId, user |-> {}]

\* ExecuteResource(resource_id), or one of the data resource classes
\* (resource_id, data_type, init_val).  DataResource itself refuses to be
\* instantiated; a data type outside type_lookup and an initial value the
\* setter rejects raise TypeError, and then no object exists.  The object
\* is of the class itself, or of a subclass of the application that defines
\* the functions named in user (read, write, execute).
NewResource(cls, resource_id, data_type, init_val, user) ==
    /\ AppIdle
    /\ Len(res) < ResLimit
    /\ UNCHANGED <<scope, wired, thread, app, insts, objs, my_objects, engine>>
    /\ LET args == [NoCall EXCEPT !.op = "new", !.cls = cls, !.id = resource_id,
                                  !.data_type = data_type, !.candidate = init_val]
           blank == [cls |-> cls, id |-> resource_id, wtype |-> data_type,
                     value |-> PyNone, object_id |-> NoId, instance_id |-> NoId,
                     user |-> user]
           set == SetValue(blank, init_val)
       IN  IF cls = "ExecuteResource"
           THEN /\ res' = Append(res, [ExecuteResource(resource_id) EXCEPT !.user = user])
                /\ last' = [args EXCEPT !.h = Len(res) + 1, !.data_type = "NONE",
                                        !.candidate = PyNone]
           ELSE IF cls = "DataResource" \/ data_type \notin DATA_TYPES
           THEN /\ res' = res
                /\ last' = [args EXCEPT !.err = "TypeError"]
           ELSE IF set.err # "none"
           THEN /\ res' = res
                /\ last' = WithCalls([args EXCEPT !.err = set.err], set.calls)
           ELSE /\ res' = Append(res, [blank EXCEPT !.value = set.value])
                /\ last' = WithCalls([args EXCEPT !.h = Len(res) + 1, !.changed = TRUE],
                                     set.calls)

\* Instance(instance_id)
NewInstance(instance_id) ==
    /\ AppIdle
    /\ Len(insts) < InstLimit
    /\ insts' = Append(insts, [cls |-> "Instance", id |-> instance_id,
                                resources |-> EmptyDict])
    /\ last' = Report("Instance", Len(insts) + 1, "none")
    /\ UNCHANGED <<scope, wired, thread, app, res, objs, my_objects, engine>>

\* Object(id, name, default_instance_cls), of class Object or of a subclass
\* that defines create, delete or both.
NewObject(id, default_instance_cls, create, delete) ==
    /\ AppIdle
    /\ Len(objs) < ObjLimit
    /\ objs' = Append(objs, [id |-> id, instances |-> EmptyDict,
                              default_instance_cls |-> default_instance_cls,
                              create |-> create, delete |-> delete])
    /\ last' = Report("Object", Len(objs) + 1, "none")
    /\ UNCHANGED <<scope, wired, thread, app, res, insts, my_objects, engine>>

\* resource.value = candidate, by the application.
Assign(h, candidate) ==
    /\ AppIdle
    /\ h \in 1..Len(res)
    /\ IsData(res[h])
    /\ LET set == SetValue(res[h], candidate) IN
        /\ res' = Store(h, set.value)
        /\ last' = WithCalls([Report("set", h, set.err) EXCEPT
                                 !.candidate = candidate,
                                 !.changed = (set.value # res[h].value)],
                             set.calls)
    /\ UNCHANGED <<scope, wired, thread, app, insts, objs, my_objects, engine>>

-----------------------------------------------------------------------------
(* Registration.                                                           *)

RECURSIVE RegisterResources_Overwrite(_, _)
\* RegisterResources without the has_key test.
RegisterResources_Overwrite(resources, batch) ==
    IF batch = <<>> THEN [dict |-> resources, err |-> "none"]
    ELSE IF Head(batch) = Junk THEN [dict |-> resources, err |-> "TypeError"]
    ELSE RegisterResources_Overwrite(Put(resources, res[Head(batch)].id, Head(batch)),
                                     Tail(batch))

RECURSIVE RegisterResources(_, _)
\* The loop of Instance.register over the rest of the list: the dict it
\* leaves and the error it ends with.
RegisterResources(resources, batch) ==
    IF batch = <<>> THEN [dict |-> resources, err |-> "none"]
    ELSE IF Head(batch) = Junk THEN [dict |-> resources, err |-> "TypeError"]
    ELSE IF res[Head(batch)].id \in DOMAIN resources
         THEN [dict |-> resources, err |-> "KeyError"]
    ELSE RegisterResources(Put(resources, res[Head(batch)].id, Head(batch)), Tail(batch))

\* Instance.register(resources) on instance i.
InstanceRegister(i, batch) ==
    /\ AppIdle
    /\ i \in 1..Len(insts)
    /\ LET done == RegisterResources(insts[i].resources, batch) IN
        /\ insts' = [insts EXCEPT ![i].resources = done.dict]
        /\ last' = [Report("Instance.register", i, done.err) EXCEPT !.batch = batch]
    /\ UNCHANGED <<scope, wired, thread, app, res, objs, my_objects, engine>>

RECURSIVE RegisterInstances(_, _)
\* The loop of Object.register over the rest of the list.
RegisterInstances(instances, batch) ==
    IF batch = <<>> THEN [dict |-> instances, err |-> "none"]
    ELSE IF Head(batch) = Junk THEN [dict |-> instances, err |-> "TypeError"]
    ELSE IF insts[Head(batch)].id \in DOMAIN instances
         THEN [dict |-> instances, err |-> "KeyError"]
    ELSE RegisterInstances(Put(instances, insts[Head(batch)].id, Head(batch)), Tail(batch))

\* Object.register(instances) on object o.
ObjectRegister(o, batch) ==
    /\ AppIdle
    /\ o \in 1..Len(objs)
    /\ LET done == RegisterInstances(objs[o].instances, batch) IN
        /\ objs' = [objs EXCEPT ![o].instances = done.dict]
        /\ last' = [Report("Object.register", o, done.err) EXCEPT !.batch = batch]
    /\ UNCHANGED <<scope, wired, thread, app, res, insts, my_objects, engine>>

\* The keys of the instances of object o that hold resource h.
HoldingKeys(o, h) ==
    {k \in DOMAIN objs[o].instances : h \in Values(insts[objs[o].instances[k]].resources)}
\* The key a dict of small int keys yields last: the largest.
LastKey(S) == CHOOSE k \in S : \A j \in S : j <= k

\* Stamp without the assignment of instance_id.
Stamp_ObjectOnly(rs, o) ==
    [h \in DOMAIN rs |->
        IF IsData(rs[h]) /\ HoldingKeys(o, h) # {}
        THEN [rs[h] EXCEPT !.object_id = objs[o].id]
        ELSE rs[h]]

\* Lines 45-49 of Client._register: every data resource of every instance of
\* object o gets the ids of the object and of the instance iterated last.
Stamp(rs, o) ==
    [h \in DOMAIN rs |->
        IF IsData(rs[h]) /\ HoldingKeys(o, h) # {}
        THEN [rs[h] EXCEPT !.object_id = objs[o].id,
                           !.instance_id = insts[objs[o].instances[LastKey(HoldingKeys(o, h))]].id]
        ELSE rs[h]]

RECURSIVE RegisterObjects(_, _, _)
\* The loop of Client._register over the rest of the list.
RegisterObjects(registered, rs, batch) ==
    IF batch = <<>> THEN [dict |-> registered, res |-> rs, err |-> "none"]
    ELSE IF Head(batch) = Junk THEN [dict |-> registered, res |-> rs, err |-> "TypeError"]
    ELSE IF objs[Head(batch)].id \in DOMAIN registered
         THEN [dict |-> registered, res |-> rs, err |-> "KeyError"]
    ELSE RegisterObjects(Put(registered, objs[Head(batch)].id, Head(batch)),
                         Stamp(rs, Head(batch)), Tail(batch))

\* lwm2m_client._register(objects)
ClientRegister(batch) ==
    /\ AppIdle
    /\ LET done == RegisterObjects(my_objects, res, batch) IN
        /\ my_objects' = done.dict
        /\ res' = done.res
        /\ last' = [Report("Client._register", 0, done.err) EXCEPT !.batch = batch]
    /\ UNCHANGED <<scope, wired, thread, app, insts, objs, engine>>

\* Lines 115-116 of StartLwm2m, with get_wakaama_object and
\* _wakaama_resources: the engine is given the create and delete callbacks of
\* every object of my_objects and the read, write and execute callbacks of
\* every resource of every instance of these objects.
Wire(registered) ==
    [objects |-> Values(registered),
     resources |-> UNION {Values(insts[i].resources) :
                            i \in UNION {Values(objs[o].instances) : o \in Values(registered)}}]

\* A StartLwm2m that goes on after _register has raised.
Reaches115_Anyway(err) == TRUE

\* StartLwm2m gets from line 114 to line 115 when _register has raised
\* nothing; what it raises leaves StartLwm2m at once.
Reaches115(err) == err = "none"

\* lwm2m_client.StartLwm2m(endpoint_name, objects) on the caller's thread, up
\* to the point where the engine runs: _register, then the engine object is
\* created from my_objects.
StartLwm2m(batch) ==
    /\ AppIdle
    /\ ~engine
    /\ thread.pc = "none"
    /\ LET done == RegisterObjects(my_objects, res, batch) IN
        /\ my_objects' = done.dict
        /\ res' = done.res
        /\ engine' = Reaches115(done.err)
        /\ wired' = IF Reaches115(done.err) THEN Wire(done.dict) ELSE wired
        /\ last' = [Report("StartLwm2m", 0, done.err) EXCEPT !.batch = batch]
    /\ UNCHANGED <<scope, thread, app, insts, objs>>

\* lwm2m_client.StartLwm2mThread(endpoint_name, objects): the thread is
\* started with StartLwm2m as its target and the call returns.
StartLwm2mThread(batch) ==
    /\ AppIdle
    /\ ~engine
    /\ thread.pc = "none"
    /\ thread' = [pc |-> "started", objects |-> batch]
    /\ last' = [Report("StartLwm2mThread", 0, "none") EXCEPT !.batch = batch]
    /\ UNCHANGED <<scope, res, insts, objs, my_objects, engine, wired, app>>

\* The thread runs line 114 of StartLwm2m: _register; an exception ends the
\* thread.
Lwm2mThreadRegister ==
    /\ thread.pc = "started"
    /\ LET done == RegisterObjects(my_objects, res, thread.objects) IN
        /\ my_objects' = done.dict
        /\ res' = done.res
        /\ thread' = [thread EXCEPT !.pc = IF Reaches115(done.err) THEN "registered"
                                            ELSE "ended"]
        /\ last' = [Report("Lwm2mThread._register", 0, done.err) EXCEPT
                        !.batch = thread.objects]
    /\ UNCHANGED <<scope, insts, objs, engine, wired, app>>

\* The thread runs lines 115-116 of StartLwm2m: the engine object is created
\* from my_objects; line 117 then runs the engine for good.
Lwm2mThreadStart ==
    /\ thread.pc = "registered"
    /\ engine' = TRUE
    /\ wired' = Wire(my_objects)
    /\ thread' = [thread EXCEPT !.pc = "running"]
    /\ last' = Report("Lwm2mThread.StartLwm2m", 0, "none")
    /\ UNCHANGED <<scope, res, insts, objs, my_objects, app>>

-----------------------------------------------------------------------------
(* Looking a resource up.                                                  *)

RECURSIVE StripLeft(_)
StripLeft(s) == IF s # <<>> /\ Head(s) = Ch.slash THEN StripLeft(Tail(s)) ELSE s
RECURSIVE StripRight(_)
StripRight(s) ==
    IF s # <<>> /\ s[Len(s)] = Ch.slash THEN StripRight(SubSeq(s, 1, Len(s) - 1)) ELSE s
\* uri.strip("/")
Strip(s) == StripRight(StripLeft(s))

RECURSIVE Split(_)
\* uri.split("/"): the pieces between the slashes, empty pieces too.
Split(s) ==
    IF \A k \in 1..Len(s) : s[k] # Ch.slash THEN <<s>>
    ELSE LET k == CHOOSE j \in 1..Len(s) :
                      s[j] = Ch.slash /\ \A m \in 1..(j - 1) : s[m] # Ch.slash
         IN  <<SubSeq(s, 1, k - 1)>> \o Split(SubSeq(s, k + 1, Len(s)))

\* my_objects[object_id][instance_id][resource_id]: the dict of the client,
\* Object.__getitem__ and Instance.__getitem__; each raises KeyError on an
\* id it does not hold.
Index(object_id, instance_id, resource_id) ==
    IF object_id \notin DOMAIN my_objects THEN [err |-> "KeyError", h |-> 0]
    ELSE LET instances == objs[my_objects[object_id]].instances IN
         IF instance_id \notin DOMAIN instances THEN [err |-> "KeyError", h |-> 0]
         ELSE LET resources == insts[instances[instance_id]].resources IN
              IF resource_id \notin DOMAIN resources THEN [err |-> "KeyError", h |-> 0]
              ELSE [err |-> "none", h |-> resources[resource_id]]

\* get_resource without the strip.
get_resource_NoStrip(uri) ==
    LET pieces == Split(uri)
        ids == [k \in 1..Len(pieces) |-> ParseInt(pieces[k])]
    IN  IF (\E k \in 1..Len(pieces) : ids[k] = Raised) \/ Len(pieces) # 3
        THEN [err |-> "ValueError", h |-> 0]
        ELSE Index(ids[1].v[1], ids[2].v[1], ids[3].v[1])

\* get_resource that takes the first three pieces of a longer uri.
get_resource_FirstThree(uri) ==
    LET pieces == Split(Strip(uri))
        ids == [k \in 1..Len(pieces) |-> ParseInt(pieces[k])]
    IN  IF (\E k \in 1..Len(pieces) : ids[k] = Raised) \/ Len(pieces) < 3
        THEN [err |-> "ValueError", h |-> 0]
        ELSE Index(ids[1].v[1], ids[2].v[1], ids[3].v[1])

\* Client.get_resource(uri): the error raised and the resource returned.
\* map(int, ...) raises ValueError on a piece that is not an integer, the
\* unpacking raises ValueError unless there are three pieces.
get_resource(uri) ==
    LET pieces == Split(Strip(uri))
        ids == [k \in 1..Len(pieces) |-> ParseInt(pieces[k])]
    IN  IF (\E k \in 1..Len(pieces) : ids[k] = Raised) \/ Len(pieces) # 3
        THEN [err |-> "ValueError", h |-> 0]
        ELSE Index(ids[1].v[1], ids[2].v[1], ids[3].v[1])

\* lwm2m_client.get_resource(uri), called by the application.
GetResource(uri) ==
    /\ AppIdle
    /\ LET got == get_resource(uri) IN
        last' = [Report("get_resource", got.h, got.err) EXCEPT !.args = uri]
    /\ UNCHANGED <<scope, res, insts, objs, my_objects, engine, wired, thread, app>>

\* lwm2m_client[object_id][instance_id][resource_id], by the application.
GetItem(object_id, instance_id, resource_id) ==
    /\ AppIdle
    /\ LET got == Index(object_id, instance_id, resource_id) IN
        last' = [Report("__getitem__", got.h, got.err) EXCEPT
                    !.args = <<object_id, instance_id, resource_id>>]
    /\ UNCHANGED <<scope, res, insts, objs, my_objects, engine, wired, thread, app>>

-----------------------------------------------------------------------------
(* The value setter, step by step, and the calls of the engine.            *)

\* lwm2m_client.ResourceValChanged(object_id, instance_id, resource_id),
\* called by the application.
NotifyChanged(object_id, instance_id, resource_id) ==
    /\ AppIdle
    /\ last' = WithCalls([Report("ResourceValChanged", 0, "none") EXCEPT
                              !.args = <<object_id, instance_id, resource_id>>],
                         <<[object_id |-> object_id, instance_id |-> instance_id,
                            id |-> resource_id, held |-> PyNone]>>)
    /\ UNCHANGED <<scope, res, insts, objs, my_objects, engine, wired, thread, app>>

\* What a write function of the application does with the value: it
\* returns True ("accept"), returns False ("reject"), or sets the value
\* itself and returns True ("sets").
WriteHooks == IF scope = "hooks" THEN {"accept", "reject", "sets"} ELSE {"accept"}
\* What a read function of the application returns.
ReadVals == IF scope = "hooks" THEN Candidates ELSE {PyInt(0)}
\* The data of an execute message, "1" or "X", and what an execute function
\* of the application returns.
Payloads == IF scope = "hooks" THEN {PyStr(<<Ch.zero + 1>>), PyStr(<<Ch.X>>)} ELSE {}
Results == {PyNone, PyBool(TRUE), PyBool(FALSE)}

\* No set of the value: what SetValue gives when it is not called.
NoSet(r) == [err |-> "none", value |-> r.value, calls |-> <<>>]

\* The test of line 238 taken as passed whatever write returned.
IfRetVal_Always(ret_val) == TRUE

\* Line 238, if ret_val: of None, True and False only True passes.
IfRetVal(ret_val) == ret_val = PyBool(TRUE)

\* WriteResource._write_callback(write_val), called by the engine on a
\* resource it holds the callback of.  An object of class WriteResource
\* itself has its value set on line 239.  Any other object has write
\* called: the default write (line 246) sets the value and returns None, so
\* line 239 is not reached; the write of a subclass of the application
\* does as hook says, and line 239 sets the value if it returned True.
WriteCallback(h, write_val, hook) ==
    /\ engine
    /\ h \in wired.resources
    /\ HasAttr(res[h], "_write_callback")
    /\ LET r == res[h]
           calls_write == HasAttr(r, "write") /\ ~TypeIs(r, "WriteResource")
           user_write == calls_write /\ "write" \in r.user
           in_write == IF calls_write /\ (~user_write \/ hook = "sets")
                       THEN SetValue(r, write_val) ELSE NoSet(r)
           ret_val == IF ~calls_write THEN PyBool(TRUE)
                      ELSE IF ~user_write THEN PyNone
                      ELSE PyBool(hook \in {"accept", "sets"})
           r1 == [r EXCEPT !.value = in_write.value]
           line239 == IF in_write.err = "none" /\ IfRetVal(ret_val)
                      THEN SetValue(r1, write_val) ELSE NoSet(r1)
           err == IF in_write.err # "none" THEN in_write.err ELSE line239.err
       IN
        /\ res' = Store(h, line239.value)
        /\ last' = WithCalls([Report("_write_callback", h, err) EXCEPT
                                 !.candidate = write_val,
                                 !.changed = (line239.value # r.value),
                                 !.invoked = IF user_write THEN <<"write">> ELSE <<>>,
                                 !.passed = IF user_write THEN <<write_val>> ELSE <<>>,
                                 !.hook = IF user_write THEN hook ELSE ""],
                             in_write.calls \o line239.calls)
    /\ UNCHANGED <<scope, insts, objs, my_objects, engine, wired, thread, app>>

\* A default read that returns 0.
read_Zero(r) == PyInt(0)

\* ReadResource.read, the default read: the value of the resource.
read(r) == r.value

\* ReadResource._read_callback(), called by the engine on a resource it
\* holds the callback of.  An object of class ReadResource itself returns
\* its value.  Any other object has read called, the default read (line
\* 229), which returns the value, or the read of a subclass of the
\* application, which returns read_val; what read returned is set as the
\* value (line 217) and the value is returned.
ReadCallback(h, read_val) ==
    /\ engine
    /\ h \in wired.resources
    /\ HasAttr(res[h], "_read_callback")
    /\ LET r == res[h]
           calls_read == HasAttr(r, "read") /\ ~TypeIs(r, "ReadResource")
           user_read == calls_read /\ "read" \in r.user
           returned == IF user_read THEN read_val ELSE read(r)
           line217 == IF calls_read THEN SetValue(r, returned) ELSE NoSet(r)
       IN
        /\ res' = Store(h, line217.value)
        /\ last' = WithCalls([Report("_read_callback", h, line217.err) EXCEPT
                                 !.changed = (line217.value # r.value),
                                 !.invoked = IF user_read THEN <<"read">> ELSE <<>>,
                                 !.candidate = IF user_read THEN read_val ELSE PyNone,
                                 !.out = IF line217.err = "none" THEN line217.value
                                         ELSE PyNone],
                             line217.calls)
    /\ UNCHANGED <<scope, insts, objs, my_objects, engine, wired, thread, app>>

\* An _execute_callback that returns None when there is no execute.
NoExecute_None == PyNone

\* Line 147: what _execute_callback returns when there is no execute.
NoExecute == PyBool(TRUE)

\* ExecuteResource._execute_callback(data), called by the engine on a
\* resource it holds the callback of: what execute returns, if a subclass
\* of the application defines it, or else True.
ExecuteCallback(h, data, result) ==
    /\ engine
    /\ h \in wired.resources
    /\ HasAttr(res[h], "_execute_callback")
    /\ LET user_execute == HasAttr(res[h], "execute") IN
        last' = [Report("_execute_callback", h, "none") EXCEPT
                    !.args = <<data>>,
                    !.invoked = IF user_execute THEN <<"execute">> ELSE <<>>,
                    !.passed = IF user_execute THEN <<data>> ELSE <<>>,
                    !.candidate = IF user_execute THEN result ELSE PyNone,
                    !.out = IF user_execute THEN result ELSE NoExecute]
    /\ UNCHANGED <<scope, res, insts, objs, my_objects, engine, wired, thread, app>>

\* resource._read_callback, ._write_callback or ._execute_callback on a
\* resource whose class has no such attribute: AttributeError.
AbsentCallback(h, name) ==
    /\ AppIdle
    /\ h \in 1..Len(res)
    /\ ~HasAttr(res[h], name)
    /\ last' = [Report("getattr", h, "AttributeError") EXCEPT !.args = <<name>>]
    /\ UNCHANGED <<scope, res, insts, objs, my_objects, engine, wired, thread, app>>

\* Line 313 of create_callback: the object holds an instance under the id.
\* HasInstance that never finds one.
HasInstance_Never(o, instance_id) == FALSE

HasInstance(o, instance_id) == instance_id \in DOMAIN objs[o].instances

\* A variant in which the class hands out a resource that holds what the
\* resource made last holds now, instead of constructing it from 0.
MadeResource_Stale ==
    LET blank == [cls |-> "ReadWriteResource", id |-> 0, wtype |-> "INT", value |-> PyNone,
                  object_id |-> NoId, instance_id |-> NoId, user |-> {}]
    IN  [blank EXCEPT !.value = IF res = <<>> THEN PyInt(0) ELSE res[Len(res)].value]

\* The resource a default instance class, or a create function, of the
\* application gives its instance: ReadWriteResource(0, INT, 0), as the
\* instance classes of the tests do.
MadeResource ==
    LET blank == [cls |-> "ReadWriteResource", id |-> 0, wtype |-> "INT", value |-> PyNone,
                  object_id |-> NoId, instance_id |-> NoId, user |-> {}]
    IN  [blank EXCEPT !.value = SetValue(blank, PyInt(0)).value]

\* What a create function of the application does when asked for an
\* instance: it makes one with the id it was given ("makes"), makes one and
\* registers it in the object itself ("registers"), or returns None
\* ("nothing").
CreateBehaviours ==
    IF scope = "lifecycle" THEN {"makes", "registers", "nothing"} ELSE {"makes"}

\* Lines 326-329 without the assignments.
CreateStamp_Skip(r, object_id, instance_id) == r

\* Lines 326-329 of create_callback: a data resource of the new instance
\* gets the address (self.id, instance_id).
CreateStamp(r, object_id, instance_id) ==
    IF IsData(r) THEN [r EXCEPT !.object_id = object_id, !.instance_id = instance_id]
    ELSE r

\* A create_default_instance that makes an instance without a class.
create_default_instance_Always(o) == TRUE

\* Object.create_default_instance(instance_id): whether it returns an
\* instance, which it does when the object has a default instance class.
create_default_instance(o) == objs[o].default_instance_cls

\* Lines 321-325 without the try: the KeyError of register gets out.
TryRegister_Raise(instances, instance_id, new_instance) ==
    IF instance_id \in DOMAIN instances
    THEN [dict |-> instances, err |-> "KeyError"]
    ELSE [dict |-> Put(instances, instance_id, new_instance), err |-> "none"]

\* Lines 321-325 of create_callback: self.register([new_instance]) in a try
\* whose except passes; the KeyError of an id the object holds, as when
\* create has registered the instance itself, is swallowed.
TryRegister(instances, instance_id, new_instance) ==
    IF instance_id \in DOMAIN instances
    THEN [dict |-> instances, err |-> "none"]
    ELSE [dict |-> Put(instances, instance_id, new_instance), err |-> "none"]

\* Object.create_callback(instance_id), called by the engine on an object it
\* holds the callback of.  With an instance under the id it returns None at
\* once.  Otherwise create, if the class defines it, or else the default
\* instance class makes an instance (with neither, or when create returns
\* None, None is returned); the instance is registered, the KeyError of an
\* id that is taken being swallowed, its data resources get the address
\* (self.id, instance_id), and their callbacks are returned.
CreateCallback(o, instance_id, made) ==
    /\ engine
    /\ o \in wired.objects
    /\ UNCHANGED <<scope, my_objects, engine, thread, app>>
    /\ LET call == [Report("create_callback", o, "none") EXCEPT
                        !.args = <<instance_id>>, !.held = objs[o].instances]
           maker == IF objs[o].create THEN "create" ELSE "default_instance_cls"
           produced == IF objs[o].create THEN made # "nothing"
                       ELSE create_default_instance(o)
           new_resource == Len(res) + 1
           new_instance == Len(insts) + 1
           by_create == IF objs[o].create /\ made = "registers"
                        THEN Put(objs[o].instances, instance_id, new_instance)
                        ELSE objs[o].instances
           registered == TryRegister(by_create, instance_id, new_instance)
       IN  IF HasInstance(o, instance_id)
           THEN /\ last' = call
                /\ UNCHANGED <<res, insts, objs, wired>>
           ELSE IF ~produced
           THEN /\ last' = [call EXCEPT
                               !.invoked = IF objs[o].create THEN <<maker>> ELSE <<>>,
                               !.passed = IF objs[o].create THEN <<instance_id>> ELSE <<>>,
                               !.hook = IF objs[o].create THEN made ELSE ""]
                /\ UNCHANGED <<res, insts, objs, wired>>
           ELSE /\ Len(insts) < InstLimit
                /\ insts' = Append(insts, [cls |-> maker, id |-> instance_id,
                                            resources |-> Put(EmptyDict, 0, new_resource)])
                /\ objs' = [objs EXCEPT ![o].instances = registered.dict]
                /\ res' = Append(res, IF registered.err = "none"
                                      THEN CreateStamp(MadeResource, objs[o].id, instance_id)
                                      ELSE MadeResource)
                /\ wired' = IF registered.err = "none"
                            THEN [wired EXCEPT !.resources = @ \cup {new_resource}]
                            ELSE wired
                /\ last' = [call EXCEPT !.err = registered.err,
                                        !.ret = IF registered.err = "none"
                                                THEN Returned(Put(EmptyDict, 0, new_resource))
                                                ELSE ReturnedNone,
                                        !.invoked = <<maker>>,
                                        !.passed = <<instance_id>>,
                                        !.hook = IF objs[o].create THEN made ELSE ""]

\* A del that empties the dict.
Del_Clear(d, k) == EmptyDict

\* Line 351, del(self._instances[id]): the dict without the key; with the
\* KeyError swallowed (line 353), a dict that lacks the key stays as it is.
Del(d, k) == [j \in DOMAIN d \ {k} |-> d[j]]

\* Object.delete_callback(id), called by the engine on an object it holds
\* the callback of: delete is called if the class defines it, then the
\* instance under the id is taken out of the object and True returned, or,
\* the KeyError of an id the object does not hold being swallowed, False.
DeleteCallback(o, id) ==
    /\ engine
    /\ o \in wired.objects
    /\ objs' = [objs EXCEPT ![o].instances = Del(@, id)]
    /\ last' = [Report("delete_callback", o, "none") EXCEPT
                    !.args = <<id>>,
                    !.invoked = IF objs[o].delete THEN <<"delete">> ELSE <<>>,
                    !.passed = IF objs[o].delete THEN <<id>> ELSE <<>>,
                    !.out = PyBool(id \in DOMAIN objs[o].instances)]
    /\ UNCHANGED <<scope, res, insts, my_objects, engine, wired, thread, app>>

\* Lines 199-204 of the value setter, run by the application while the
\* engine runs on its thread: the candidate is converted and compared, and
\* the client is told, or not (told); the assignment of line 205 is still
\* to come.
SetterNotify(h, candidate) ==
    /\ AppIdle
    /\ engine
    /\ h \in 1..Len(res)
    /\ IsData(res[h])
    /\ LET set == SetValue(res[h], candidate) IN
        /\ app' = IF set.err = "none"
                  THEN [pc |-> "assign", h |-> h, set_val |-> set.value,
                        told |-> set.calls # <<>>]
                  ELSE Idle
        /\ last' = WithCalls([Report("set:199-204", h, set.err) EXCEPT
                                 !.candidate = candidate],
                             set.calls)
    /\ UNCHANGED <<scope, res, insts, objs, my_objects, engine, wired, thread>>

\* Line 205 of the value setter: the converted candidate is stored.
SetterAssign ==
    /\ app.pc = "assign"
    /\ res' = Store(app.h, app.set_val)
    /\ app' = Idle
    /\ last' = [Report("set:205", app.h, "none") EXCEPT
                    !.changed = (app.set_val # res[app.h].value)]
    /\ UNCHANGED <<scope, insts, objs, my_objects, engine, wired, thread>>

-----------------------------------------------------------------------------
Init ==
    /\ scope \in Scopes
    /\ res = <<>>
    /\ insts = <<>>
    /\ objs = <<>>
    /\ my_objects = EmptyDict
    /\ engine = FALSE
    /\ wired = NotWired
    /\ thread = NoThread
    /\ app = Idle
    /\ last = NoCall

Next ==
    \/ \E cls \in Classes, id \in ResourceIds, data_type \in DataTypes,
          init_val \in InitialValues :
          \E user \in UserFunctions(cls) : NewResource(cls, id, data_type, init_val, user)
    \/ \E id \in InstanceIds : NewInstance(id)
    \/ \E id \in ObjectIds, cls \in DefaultInstanceClasses, create \in CreateFunctions,
          delete \in DeleteFunctions :
          NewObject(id, cls, create, delete)
    \/ \E h \in 1..Len(res), candidate \in Candidates : Assign(h, candidate)
    \/ \E i \in 1..Len(insts), batch \in Batches(1..Len(res)) : InstanceRegister(i, batch)
    \/ \E o \in 1..Len(objs), batch \in Batches(1..Len(insts)) : ObjectRegister(o, batch)
    \/ \E batch \in Batches(1..Len(objs)) : ClientRegister(batch)
    \/ \E batch \in Batches(1..Len(objs)) : StartLwm2m(batch)
    \/ \E batch \in Batches(1..Len(objs)) : scope = "thread" /\ StartLwm2mThread(batch)
    \/ Lwm2mThreadRegister
    \/ Lwm2mThreadStart
    \/ \E o \in NotifyIds, i \in NotifyIds, r \in NotifyIds : NotifyChanged(o, i, r)
    \/ \E h \in 1..Len(res), write_val \in Candidates, hook \in WriteHooks :
          WriteCallback(h, write_val, hook)
    \/ \E h \in 1..Len(res), read_val \in ReadVals : ReadCallback(h, read_val)
    \/ \E h \in 1..Len(res), data \in Payloads, result \in Results :
          ExecuteCallback(h, data, result)
    \/ \E h \in 1..Len(res), name \in Callbacks : scope = "hooks" /\ AbsentCallback(h, name)
    \/ \E h \in 1..Len(res), candidate \in Candidates :
          scope = "thread" /\ SetterNotify(h, candidate)
    \/ SetterAssign
    \/ \E o \in 1..Len(objs), id \in CreateIds, made \in CreateBehaviours :
          CreateCallback(o, id, made)
    \/ \E o \in 1..Len(objs), id \in CreateIds : DeleteCallback(o, id)
    \/ \E uri \in Uris : GetResource(uri)
    \/ \E o \in IndexIds, i \in IndexIds, r \in IndexIds : GetItem(o, i, r)

Spec == Init /\ [][Next]_vars

-----------------------------------------------------------------------------
(* Properties.                                                             *)

\* The address of a resource has been assigned.
Addressed(r) == r.object_id # NoId /\ r.instance_id # NoId
\* The address a call on the client names.
CallAddress(c) == <<c.object_id, c.instance_id, c.id>>
\* The data types a data resource can be constructed with.
SupportedTypes == {"STRING", "INT", "FLOAT", "BOOL", "OPAQUE"}
\* The value is of the Python type of the data type.
IsOfType(x, data_type) == x.t = type_lookup[data_type]
\* The last call was resource.value = candidate on a data resource.
WasSet == last.op = "set"
\* The last call was the constructor of a data resource class with a
\* supported data type.
WasNewData == last.op = "new" /\ last.cls \in DataClasses /\ last.data_type \in SupportedTypes

\* C1: a set that changes the value of a resource whose address has been
\* assigned, whatever the ids are, makes exactly one call on the client,
\* with the address of the resource.
C1_NotifyOnChange ==
    (WasSet /\ last.err = "none" /\ last.changed /\ Addressed(res[last.h]))
        => /\ Len(last.calls) = 1
           /\ CallAddress(last.calls[1])
                = <<res[last.h].object_id, res[last.h].instance_id, res[last.h].id>>

\* C2: when a change notification reaches the engine, the cell holds the
\* new value (the value it holds once the set has returned).
C2_NotificationSeesNewValue ==
    WasSet => \A k \in 1..Len(last.forwarded) :
                  last.forwarded[k].held = res[last.h].value

\* C3: a set whose converted candidate equals the current value makes no
\* call on the client and none reaches the engine, addressed or not.
C3_NoNotifyWhenEqual ==
    (WasSet /\ last.err = "none" /\ ~last.changed)
        => /\ Coerce(res[last.h].wtype, last.candidate) = res[last.h].value
           /\ last.calls = <<>>
           /\ last.forwarded = <<>>

\* C3 witness: an addressed resource, with ids the setter takes as true, set
\* to a candidate of another type whose conversion is the value it holds.
C3_Witness ==
    /\ WasSet /\ last.err = "none" /\ ~last.changed
    /\ Truthy(res[last.h].object_id) /\ Truthy(res[last.h].instance_id)
    /\ last.candidate # res[last.h].value
    /\ engine

\* C4: a set on a resource whose address is unassigned, with a candidate
\* that converts, stores the converted candidate, raises nothing and makes
\* no call on the client, whether or not the value changes.
C4_UnaddressedSet ==
    (WasSet /\ ~Addressed(res[last.h])
       /\ Coerce(res[last.h].wtype, last.candidate) # Raised)
        => /\ last.err = "none"
           /\ res[last.h].value = Coerce(res[last.h].wtype, last.candidate)
           /\ last.calls = <<>>
           /\ last.forwarded = <<>>

\* C4 witness: an unaddressed resource whose value a set has changed.
C4_Witness == WasSet /\ ~Addressed(res[last.h]) /\ last.err = "none" /\ last.changed

\* C5: a set whose candidate does not convert raises TypeError, leaves the
\* value of the cell as it was and makes no call on the client; and the
\* value of every cell is of the type of its resource's data type.
C5_RejectedSet ==
    /\ (WasSet /\ Coerce(res[last.h].wtype, last.candidate) = Raised)
          => /\ last.err = "TypeError"
             /\ ~last.changed
             /\ last.calls = <<>>
             /\ last.forwarded = <<>>
    /\ (WasSet /\ last.err = "TypeError")
          => Coerce(res[last.h].wtype, last.candidate) = Raised
    /\ \A h \in 1..Len(res) : IsData(res[h]) => IsOfType(res[h].value, res[h].wtype)

\* C5 witness: a set on an addressed resource has raised TypeError.
C5_Witness ==
    /\ WasSet /\ last.err = "TypeError"
    /\ Truthy(res[last.h].object_id) /\ Truthy(res[last.h].instance_id)

C7_ConstructThenRead ==
    (WasNewData /\ IsOfType(last.candidate, last.data_type))
        => /\ last.err = "none"
           /\ last.h \in 1..Len(res)
           /\ res[last.h].value = last.candidate
           /\ res[last.h].cls = last.cls
           /\ res[last.h].id = last.id
           /\ res[last.h].wtype = last.data_type

\* C7 witness: a resource made from a float initial value that is not a
\* whole number.
C7_Witness ==
    /\ WasNewData /\ last.err = "none"
    /\ last.data_type = "FLOAT" /\ last.candidate = PyFloat(3)
    /\ res[last.h].value = PyFloat(3)

\* C8: an Instance.register call that raises leaves the resources of the
\* instance as they were before the call.
C8_InstanceRegisterAtomic ==
    [][(last'.op = "Instance.register" /\ last'.err # "none") => insts' = insts]_vars

\* In a list handed to Instance.register, the first position whose item is
\* not a resource or has an id that the instance holds or that an earlier
\* item of the list has; 0 if there is none.
SameId(batch, m, n) ==
    batch[m] # Junk /\ batch[n] # Junk /\ res[batch[m]].id = res[batch[n]].id
Offends(held, batch, n) ==
    \/ batch[n] = Junk
    \/ res[batch[n]].id \in DOMAIN held
    \/ \E m \in 1..(n - 1) : SameId(batch, m, n)
FirstOffender(held, batch) ==
    IF \E n \in 1..Len(batch) : Offends(held, batch, n)
    THEN CHOOSE n \in 1..Len(batch) :
            Offends(held, batch, n) /\ \A m \in 1..(n - 1) : ~Offends(held, batch, m)
    ELSE 0

\* C9: an Instance.register call raises KeyError exactly when the first
\* offending item of its list is a resource whose id is already present (in
\* the instance, or from an earlier item of the list), and then the instance
\* maps that id to the resource registered first, not to the offender's own
\* registration; no call changes what an id already held maps to.
C9_DuplicateResourceId ==
    [][last'.op = "Instance.register" =>
          LET before == insts[last'.h].resources
              after == insts'[last'.h].resources
              batch == last'.batch
              n == FirstOffender(before, batch)
          IN  /\ (last'.err = "KeyError") <=> (n # 0 /\ batch[n] # Junk)
              /\ \A k \in DOMAIN before : k \in DOMAIN after /\ after[k] = before[k]
              /\ last'.err = "KeyError" =>
                    LET id == res[batch[n]].id IN
                    /\ id \in DOMAIN after
                    /\ id \in DOMAIN before => after[id] = before[id]
                    /\ id \notin DOMAIN before =>
                          \E m \in 1..(n - 1) :
                              /\ SameId(batch, m, n)
                              /\ \A j \in 1..(m - 1) : ~SameId(batch, j, n)
                              /\ after[id] = batch[m]
      ]_vars

\* C9 witness: Instance.register has raised KeyError on a resource that is
\* not the object the instance holds under its id.
C9_Witness ==
    /\ last.op = "Instance.register" /\ last.err = "KeyError"
    /\ \E n \in 1..Len(last.batch) :
          /\ last.batch[n] # Junk
          /\ res[last.batch[n]].id \in DOMAIN insts[last.h].resources
          /\ insts[last.h].resources[res[last.batch[n]].id] # last.batch[n]

\* C10: an Object.register call that raises leaves the instances of the
\* object as they were before the call.
C10_ObjectRegisterAtomic ==
    [][(last'.op = "Object.register" /\ last'.err # "none") => objs' = objs]_vars

\* The data resources an instance holds.
DataResourcesOf(i) == {h \in Values(insts[i].resources) : IsData(res[h])}
\* The instances an object holds.
InstancesOf(o) == Values(objs[o].instances)
\* The items of a list handed to a register call that are objects of the
\* program.
Items(batch) == {batch[n] : n \in 1..Len(batch)} \ {Junk}

\* C11: after an Object.register call that raises nothing, every data
\* resource of every instance of the list has the id of the object as its
\* object_id and the id of an instance of the list that holds it as its
\* instance_id, whether or not the client holds the object.
C11_ObjectRegisterStamps ==
    (last.op = "Object.register" /\ last.err = "none")
        => \A i \in Items(last.batch) : \A h \in DataResourcesOf(i) :
              /\ res[h].object_id = objs[last.h].id
              /\ \E j \in Items(last.batch) :
                    h \in DataResourcesOf(j) /\ res[h].instance_id = insts[j].id

\* C12: a Client._register call that raises leaves my_objects and the
\* address of every resource as they were before the call.
C12_ClientRegisterAtomic ==
    [][(last'.op = "Client._register" /\ last'.err # "none")
          => (my_objects' = my_objects /\ res' = res)]_vars

\* Resource h is held by instance i of object o, and its address is theirs.
StampedBy(h, o, i) ==
    /\ i \in InstancesOf(o)
    /\ h \in DataResourcesOf(i)
    /\ res[h].object_id = objs[o].id
    /\ res[h].instance_id = insts[i].id

\* C13: after a Client._register call that raises nothing, every data
\* resource of every instance of every object of the list has as its address
\* the ids of an object of the list and of an instance of that object that
\* holds the resource (the only such pair, unless the application has put
\* the resource in several instances).
C13_ClientRegisterStamps ==
    (last.op = "Client._register" /\ last.err = "none")
        => \A o \in Items(last.batch) : \A i \in InstancesOf(o) :
              \A h \in DataResourcesOf(i) :
                  \E p \in Items(last.batch) : \E j \in InstancesOf(p) : StampedBy(h, p, j)

\* C13 witness: Client._register has registered an object with id 0 whose
\* instance holds a data resource, and the resource has that address.
C13_Witness ==
    /\ last.op = "Client._register" /\ last.err = "none"
    /\ \E o \in Items(last.batch) : \E i \in InstancesOf(o) : \E h \in DataResourcesOf(i) :
          objs[o].id = 0 /\ StampedBy(h, o, i)

\* The last call was ResourceValChanged, made by the application.
WasNotify == last.op = "ResourceValChanged"

\* C16: a ResourceValChanged call made while _wakaama_client does not exist
\* raises nothing, reaches no engine and changes nothing, whatever its
\* arguments are.
C16_NotifyBeforeStart ==
    [][(last'.op = "ResourceValChanged" /\ ~engine)
          => /\ last'.err = "none"
             /\ last'.forwarded = <<>>
             /\ UNCHANGED <<res, insts, objs, my_objects, engine, wired, thread, app>>]_vars

\* C16 witness: ResourceValChanged has been called with the address of a
\* resource after StartLwm2mThread has returned and before the engine exists.
C16_Witness ==
    /\ WasNotify /\ ~engine /\ thread.pc = "registered"
    /\ \E h \in 1..Len(res) :
          last.args = <<res[h].object_id, res[h].instance_id, res[h].id>>

\* C17: once _wakaama_client exists, a ResourceValChanged call reaches the
\* engine within the call, once, with the arguments of the call; and so does
\* every call a value setter makes on the client.
C17_NotifyForwarded ==
    engine => /\ last.forwarded = last.calls
              /\ WasNotify => /\ Len(last.forwarded) = 1
                              /\ CallAddress(last.forwarded[1]) = last.args

\* C17 witness: ResourceValChanged has reached the engine started on the
\* thread of StartLwm2mThread.
C17_Witness ==
    /\ WasNotify /\ engine /\ thread.pc = "running"
    /\ Len(last.forwarded) = 1
    /\ last.args = <<MaxId, NoId, 0>>

\* C18: once StartLwm2mThread has returned and its thread has given the
\* resources of the objects their addresses, every call a value setter of
\* the application makes on the client reaches the engine.
C18_WiredWhenThreadStartReturns ==
    (WasSet /\ thread.pc \in {"registered", "running"}) => last.forwarded = last.calls

\* C19: while the application is between the notification and the assignment
\* of a set, no _write_callback of the engine sets the same cell.
C19_SetPathExclusive ==
    ~(app.pc = "assign" /\ last.op = "_write_callback" /\ last.h = app.h)

\* The resource the registry holds under the ids of a uri, if any: the one
\* the index operators give.
Registered(o, i, r) ==
    /\ o \in DOMAIN my_objects
    /\ i \in DOMAIN objs[my_objects[o]].instances
    /\ r \in DOMAIN insts[objs[my_objects[o]].instances[i]].resources
Held(o, i, r) == insts[objs[my_objects[o]].instances[i]].resources[r]
\* The uri names the ids: it is their url, with or without a slash before
\* and after.
Names(uri, o, i, r) == uri \in Decorated(BuildUrl(<<o, i, r>>))

\* C14: for registered ids o, i, r, get_resource of the url of the ids, with
\* or without a slash before and after, returns the resource the index
\* operators return; and after a _write_callback on that resource that no
\* write function of the application refused, both read the value the
\* callback wrote.
C14_ResolveAgreesWithIndex ==
    \A o \in Ids, i \in Ids, r \in Ids :
        Registered(o, i, r) =>
            /\ (last.op = "get_resource" /\ Names(last.args, o, i, r))
                  => (last.err = "none" /\ last.h = Held(o, i, r))
            /\ (last.op = "__getitem__" /\ last.args = <<o, i, r>>)
                  => (last.err = "none" /\ last.h = Held(o, i, r))
            /\ (last.op = "_write_callback" /\ last.err = "none" /\ last.hook # "reject"
                  /\ last.h = Held(o, i, r))
                  => /\ res[last.h].value = Coerce(res[last.h].wtype, last.candidate)
                     /\ Index(o, i, r).h = last.h
                     /\ \A uri \in Decorated(BuildUrl(<<o, i, r>>)) :
                           get_resource(uri).h = last.h

\* C14 witness: get_resource of a url with a slash before and after has
\* returned a resource of object 0 whose value the engine has changed.
C14_Witness ==
    /\ last.op = "get_resource" /\ last.err = "none"
    /\ Head(last.args) = Ch.slash /\ last.args[Len(last.args)] = Ch.slash
    /\ res[last.h].object_id = 0
    /\ res[last.h].value = PyInt(1)
    /\ engine

\* The uri is three integers between slashes, give or take a slash before
\* and after.
WellFormed(uri) == \E o \in Ids, i \in Ids, r \in Ids : Names(uri, o, i, r)

\* C15: get_resource raises ValueError exactly on a uri that is not three
\* integers between slashes and KeyError exactly on a uri of three integers
\* of which the registry does not hold one; it never changes the registry,
\* an object, an instance or a value and makes no call on the client.
C15_ResolveFailures ==
    [][last'.op = "get_resource" =>
          /\ (last'.err = "ValueError") <=> ~WellFormed(last'.args)
          /\ (last'.err = "KeyError") <=>
                \E o \in Ids, i \in Ids, r \in Ids :
                    Names(last'.args, o, i, r) /\ ~Registered(o, i, r)
          /\ last'.err # "none" => last'.h = 0
          /\ last'.calls = <<>> /\ last'.forwarded = <<>>
          /\ UNCHANGED <<res, insts, objs, my_objects, engine, wired, thread, app>>
      ]_vars

\* C15 witness: get_resource has raised KeyError on the url of a resource id
\* that an instance of a registered object does not hold.
C15_Witness ==
    /\ last.op = "get_resource" /\ last.err = "KeyError"
    /\ \E o \in Ids, i \in Ids, r \in Ids :
          /\ Names(last.args, o, i, r)
          /\ o \in DOMAIN my_objects
          /\ i \in DOMAIN objs[my_objects[o]].instances
          /\ r \notin DOMAIN insts[objs[my_objects[o]].instances[i]].resources

\* C20: create_callback(id) on an object with a default instance class (and
\* no create function of its own) that holds no instance under id returns
\* the callbacks of the resources of a new instance and leaves the object
\* holding that instance under id; create_callback(id) on an object that
\* holds an instance under id returns None, invokes neither the default
\* instance class nor create, and leaves the instances of the object and
\* every object, instance and resource as they were.
C20_CreateOnceThenNone ==
    [][last'.op = "create_callback" =>
          LET o == last'.h
              id == last'.args[1]
          IN  /\ (objs[o].default_instance_cls /\ ~objs[o].create
                    /\ id \notin DOMAIN objs[o].instances)
                    => /\ ~last'.ret.none
                       /\ last'.ret.dict # EmptyDict
                       /\ last'.invoked = <<"default_instance_cls">>
                       /\ id \in DOMAIN objs'[o].instances
                       /\ insts'[objs'[o].instances[id]].id = id
                       /\ insts'[objs'[o].instances[id]].resources = last'.ret.dict
                       /\ \A k \in DOMAIN objs[o].instances :
                             objs'[o].instances[k] = objs[o].instances[k]
              /\ id \in DOMAIN objs[o].instances
                    => /\ last'.ret.none
                       /\ last'.invoked = <<>>
                       /\ UNCHANGED <<res, insts, objs, my_objects, wired>>
      ]_vars

\* C20 witness: create_callback has returned None for an id under which the
\* object holds an instance that its default instance class made.
C20_Witness ==
    /\ last.op = "create_callback" /\ last.ret.none
    /\ objs[last.h].default_instance_cls
    /\ last.args[1] \in DOMAIN objs[last.h].instances
    /\ insts[objs[last.h].instances[last.args[1]]].cls = "default_instance_cls"

\* The last call was _write_callback, made by the engine.
WasWrite == last.op = "_write_callback"
\* The candidate of the last call can be converted to the type of the resource.
Convertible == Coerce(res[last.h].wtype, last.candidate) # Raised

\* C24: a _write_callback on a resource without a write function of the
\* application, or with one that returns True, leaves the cell holding the
\* converted candidate and, when the resource has an address and the value
\* changed, makes exactly one call on the client, with that address.
C24_WriteCommitsAndNotifies ==
    (WasWrite /\ last.hook \in {"", "accept"} /\ Convertible)
        => /\ last.err = "none"
           /\ res[last.h].value = Coerce(res[last.h].wtype, last.candidate)
           /\ Len(last.calls) <= 1
           /\ (last.changed /\ Addressed(res[last.h]))
                 => /\ Len(last.calls) = 1
                    /\ CallAddress(last.calls[1])
                         = <<res[last.h].object_id, res[last.h].instance_id, res[last.h].id>>

\* C25: a _write_callback on a resource whose write function returns False
\* without setting the value leaves the value, and everything else,
\* unchanged, makes no call on the client and raises nothing.
C25_RejectedWriteChangesNothing ==
    [][(last'.op = "_write_callback" /\ last'.hook = "reject")
          => /\ last'.err = "none"
             /\ last'.calls = <<>>
             /\ last'.forwarded = <<>>
             /\ UNCHANGED <<res, insts, objs, my_objects, engine, wired, thread, app>>]_vars

\* C25 witness: the write function has refused a value that differs from
\* the value of the resource, whose ids the setter takes as true.
C25_Witness ==
    /\ WasWrite /\ last.hook = "reject" /\ last.invoked = <<"write">>
    /\ Convertible
    /\ Coerce(res[last.h].wtype, last.candidate) # res[last.h].value
    /\ Truthy(res[last.h].object_id) /\ Truthy(res[last.h].instance_id)

\* The last call was _read_callback, made by the engine.
WasRead == last.op = "_read_callback"

\* C26: a _read_callback on a resource with a read function of the
\* application calls the function once, sets what it returned as the value
\* (making exactly one call on the client when the resource has an address
\* and the value changed) and returns the value the cell holds afterwards.
C26_ReadStoresHookValue ==
    (WasRead /\ "read" \in res[last.h].user /\ Convertible)
        => /\ last.invoked = <<"read">>
           /\ last.err = "none"
           /\ res[last.h].value = Coerce(res[last.h].wtype, last.candidate)
           /\ last.out = res[last.h].value
           /\ Len(last.calls) <= 1
           /\ (last.changed /\ Addressed(res[last.h]))
                 => /\ Len(last.calls) = 1
                    /\ CallAddress(last.calls[1])
                         = <<res[last.h].object_id, res[last.h].instance_id, res[last.h].id>>

\* C27: a _read_callback on a resource without a read function of the
\* application returns the value the cell held when it was called, raises
\* nothing, makes no call on the client and changes nothing.
C27_PlainReadReturnsValue ==
    [][(last'.op = "_read_callback" /\ "read" \notin res[last'.h].user)
          => /\ last'.err = "none"
             /\ last'.out = res[last'.h].value
             /\ last'.invoked = <<>>
             /\ last'.calls = <<>>
             /\ last'.forwarded = <<>>
             /\ UNCHANGED <<res, insts, objs, my_objects, engine, wired, thread, app>>]_vars

\* C27 witness: the engine has read, through the default read, a resource
\* whose value its _write_callback had changed from the initial 0 to 1.
C27_Witness ==
    /\ WasRead /\ res[last.h].user = {} /\ res[last.h].cls = "ReadWriteResource"
    /\ Truthy(res[last.h].object_id) /\ Truthy(res[last.h].instance_id)
    /\ last.out = PyInt(1)

\* C28: an _execute_callback on a resource with an execute function of the
\* application calls the function once with the data of the message and
\* returns what it returned; without one it returns True, makes no call on
\* the client and changes nothing.
C28_ExecuteCallsAction ==
    [][last'.op = "_execute_callback"
          => /\ last'.err = "none"
             /\ res[last'.h].cls = "ExecuteResource"
             /\ IF "execute" \in res[last'.h].user
                THEN /\ last'.invoked = <<"execute">>
                     /\ last'.passed = last'.args
                     /\ last'.out = last'.candidate
                ELSE /\ last'.invoked = <<>>
                     /\ last'.out = PyBool(TRUE)
                     /\ last'.calls = <<>>
                     /\ UNCHANGED <<res, insts, objs, my_objects, engine, wired, thread,
                                    app>>]_vars

\* C28 witness: the engine has run an execute resource without an execute
\* function, with the data "X".
C28_Witness ==
    /\ last.op = "_execute_callback" /\ res[last.h].user = {}
    /\ last.args = <<PyStr(<<Ch.X>>)>>
    /\ last.out = PyBool(TRUE)

\* C29: which callbacks a resource has, and which the engine is handed for
\* it, follows from its class: _read_callback for ReadResource and
\* ReadWriteResource, _write_callback for WriteResource and
\* ReadWriteResource, _execute_callback for ExecuteResource; an
\* ExecuteResource is of type NONE and has no value; the engine is only
\* ever served by a callback the resource has, and asking a resource for a
\* callback it does not have raises AttributeError.
C29_CallbacksFollowClass ==
    /\ \A h \in 1..Len(res) :
          LET r == res[h] handed == Lwm2mResourceBaseClass(r) IN
          /\ handed.read <=> r.cls \in {"ReadResource", "ReadWriteResource"}
          /\ handed.write <=> r.cls \in {"WriteResource", "ReadWriteResource"}
          /\ handed.execute <=> r.cls = "ExecuteResource"
          /\ r.cls = "ExecuteResource"
                => r.wtype = "NONE" /\ ~HasAttr(r, "value") /\ r.value = PyNone
    /\ \A i \in 1..Len(insts) : \A id \in DOMAIN insts[i].resources :
          LET r == res[insts[i].resources[id]] handed == wakaama_resources(i)[id] IN
          /\ handed.id = r.id /\ handed.type = r.wtype
          /\ handed.read <=> r.cls \in {"ReadResource", "ReadWriteResource"}
          /\ handed.write <=> r.cls \in {"WriteResource", "ReadWriteResource"}
          /\ handed.execute <=> r.cls = "ExecuteResource"
    /\ WasRead => res[last.h].cls \in {"ReadResource", "ReadWriteResource"}
    /\ WasWrite => res[last.h].cls \in {"WriteResource", "ReadWriteResource"}
    /\ last.op = "_execute_callback" => res[last.h].cls = "ExecuteResource"
    /\ last.op = "getattr"
          => /\ last.err = "AttributeError"
             /\ \/ last.args = <<"_read_callback">>
                      /\ res[last.h].cls \in {"WriteResource", "ExecuteResource"}
                \/ last.args = <<"_write_callback">>
                      /\ res[last.h].cls \in {"ReadResource", "ExecuteResource"}
                \/ last.args = <<"_execute_callback">> /\ res[last.h].cls \in DataClasses

\* C29 witness: a ReadResource the engine holds has been asked for its
\* _write_callback.
C29_Witness ==
    /\ last.op = "getattr" /\ last.args = <<"_write_callback">>
    /\ last.err = "AttributeError"
    /\ res[last.h].cls = "ReadResource"
    /\ last.h \in wired.resources

\* C30: a set by the application or a _write_callback by the engine, on a
\* resource without functions of the application, leaves every other
\* resource as it was, value and address, and all instances and objects;
\* and a _read_callback on a resource without such functions returns the
\* value that resource itself held, whatever was written to the others.
C30_OtherResourcesUntouched ==
    [][/\ (last'.op \in {"set", "set:205", "_write_callback"} /\ res[last'.h].user = {})
            => /\ DOMAIN res' = DOMAIN res
               /\ \A k \in DOMAIN res : k # last'.h => res'[k] = res[k]
               /\ res'[last'.h].object_id = res[last'.h].object_id
               /\ res'[last'.h].instance_id = res[last'.h].instance_id
               /\ UNCHANGED <<insts, objs, my_objects>>
       /\ (last'.op = "_read_callback" /\ res[last'.h].user = {})
            => /\ last'.out = res[last'.h].value
               /\ res' = res]_vars

\* C30 witness: of two resources of one instance the engine has written 1
\* to one and then read the other, which still holds and returns its 0.
C30_Witness ==
    /\ WasRead /\ Len(res) = 2
    /\ \E k \in 1..Len(res) :
          /\ k # last.h /\ k \in wired.resources
          /\ IsData(res[k]) /\ res[k].value = PyInt(1)
          /\ res[k].instance_id = res[last.h].instance_id
    /\ res[last.h].value = PyInt(0) /\ last.out = PyInt(0)

\* The last call was create_callback, made by the engine.
WasCreate == last.op = "create_callback"

\* C21: when create_callback(instance_id) has returned callbacks, whether
\* the default instance class or a create function made the instance, the
\* object holds an instance under instance_id, every data resource of that
\* instance has the address (id of the object, instance_id), the callbacks
\* returned are those of exactly the resources of that instance, under
\* their ids, and each is what the client finds at object/instance/resource,
\* by index and by uri.
C21_CreatedInstanceIsRegistered ==
    (WasCreate /\ ~last.ret.none)
        => LET o == last.h
               instance_id == last.args[1]
           IN  /\ instance_id \in DOMAIN objs[o].instances
               /\ LET resources == insts[objs[o].instances[instance_id]].resources IN
                   /\ \A k \in Values(resources) :
                         IsData(res[k]) => /\ res[k].object_id = objs[o].id
                                           /\ res[k].instance_id = instance_id
                   /\ DOMAIN last.ret.dict = DOMAIN resources
                   /\ \A id \in DOMAIN last.ret.dict :
                         /\ last.ret.dict[id] = resources[id]
                         /\ Index(objs[o].id, instance_id, id)
                              = [err |-> "none", h |-> last.ret.dict[id]]
                         /\ get_resource(BuildUrl(<<objs[o].id, instance_id, id>>))
                              = [err |-> "none", h |-> last.ret.dict[id]]

\* C21 witness: a create function that registers the instance itself has
\* been asked for instance 0, and create_callback has returned callbacks.
C21_Witness ==
    /\ WasCreate /\ ~last.ret.none
    /\ last.invoked = <<"create">> /\ last.hook = "registers"
    /\ last.args = <<0>>
    /\ last.ret.dict # EmptyDict

\* C22: a create_callback call puts at most one instance into the instances
\* of the object and takes none out; when nothing makes an instance (the
\* class defines no create and the object has no default instance class, or
\* create returns None) it returns None and leaves the instances of the
\* object, and every object, instance and resource, as they were.
C22_CreateAddsAtMostOne ==
    [][last'.op = "create_callback" =>
          LET o == last'.h
              before == objs[o].instances
              after == objs'[o].instances
          IN  /\ DOMAIN before \subseteq DOMAIN after
              /\ \A k \in DOMAIN before : after[k] = before[k]
              /\ Cardinality(DOMAIN after \ DOMAIN before) <= 1
              /\ Len(insts') <= Len(insts) + 1
              /\ \A p \in DOMAIN objs : p # o => objs'[p] = objs[p]
              /\ ((~objs[o].create /\ ~objs[o].default_instance_cls)
                    \/ (objs[o].create /\ last'.hook = "nothing"))
                    => /\ last'.ret.none
                       /\ last'.err = "none"
                       /\ UNCHANGED <<res, insts, objs, my_objects, wired>>
      ]_vars

\* C22 witness: a create function has been asked for an instance the object
\* does not hold and has returned None, and so has create_callback.
C22_Witness ==
    /\ WasCreate /\ last.ret.none
    /\ last.invoked = <<"create">> /\ last.hook = "nothing"
    /\ last.args[1] \notin DOMAIN objs[last.h].instances

\* The last call was delete_callback, made by the engine.
WasDelete == last.op = "delete_callback"

\* C23: delete_callback(id) on an object that holds an instance under id
\* returns True and leaves the object without that id, so that the lookup
\* of the instance raises KeyError, and with every other instance as it
\* was; on an object that holds none under id it returns False and leaves
\* the instances as they were.  Either way no other object, and no instance
\* or resource, changes.
C23_DeleteRemovesOne ==
    /\ [][last'.op = "delete_callback" =>
            LET o == last'.h
                id == last'.args[1]
                before == objs[o].instances
                after == objs'[o].instances
            IN  /\ last'.err = "none"
                /\ IF id \in DOMAIN before
                   THEN /\ last'.out = PyBool(TRUE)
                        /\ DOMAIN after = DOMAIN before \ {id}
                        /\ \A k \in DOMAIN after : after[k] = before[k]
                   ELSE /\ last'.out = PyBool(FALSE)
                        /\ after = before
                /\ \A p \in DOMAIN objs : p # o => objs'[p] = objs[p]
                /\ UNCHANGED <<res, insts, my_objects>>
        ]_vars
    /\ [](WasDelete =>
            \A r \in Ids : Index(objs[last.h].id, last.args[1], r).err = "KeyError")

\* C23 witness: of two instances of an object whose class defines delete,
\* delete_callback has taken out one and left the other.
C23_Witness ==
    /\ WasDelete /\ last.out = PyBool(TRUE) /\ last.invoked = <<"delete">>
    /\ DOMAIN objs[last.h].instances # {}
    /\ last.args[1] \notin DOMAIN objs[last.h].instances

\* The register calls of the application.
RegisterOps == {"Instance.register", "Object.register", "Client._register"}

\* C31: once the engine exists, a register call of the application on an
\* instance, an object or the client adds nothing: the resources of every
\* instance, the instances of every object and the objects of the client
\* stay as they were.
C31_RegistrationClosedAfterStart ==
    [][(engine /\ last'.op \in RegisterOps) => UNCHANGED <<insts, objs, my_objects>>]_vars

\* C32: once a resource has an address, no call changes its object_id or
\* its instance_id: not a register call on the client or on an object, not
\* the start of the client, not create_callback, not delete_callback.
C32_AddressSetOnce ==
    [][\A h \in DOMAIN res :
          Addressed(res[h]) => /\ res'[h].object_id = res[h].object_id
                               /\ res'[h].instance_id = res[h].instance_id]_vars

\* C33: when a set of the application and the callbacks of the engine
\* interleave on a cell that has an address, every set tells the client
\* exactly when it changes the value the cell holds, so that no
\* notification is lost and none is made twice: the set of the application
\* has told the client (line 204) exactly if its assignment (line 205)
\* changes the value, and a callback that runs in between makes one call if
\* it changes the value and none if it does not.
C33_NotificationsMatchChanges ==
    [][/\ (last'.op = "set:205" /\ Addressed(res[app.h]))
            => (app.told <=> res'[app.h].value # res[app.h].value)
       /\ (app.pc = "assign" /\ last'.op \in {"_write_callback", "_read_callback"}
             /\ last'.h = app.h /\ Addressed(res[app.h]))
            => Len(last'.calls)
                 = IF res'[app.h].value # res[app.h].value THEN 1 ELSE 0]_vars

\* C34: when the create function of the application has registered the new
\* instance in the object itself, create_callback raises nothing and
\* returns the callbacks of the resources of that instance; the object
\* holds the instance under its id and under no other, and the data
\* resources of the instance have the address (id of the object, id).
C34_HandlerRegisteredTolerated ==
    (WasCreate /\ last.invoked = <<"create">> /\ last.hook = "registers")
        => LET o == last.h
               id == last.args[1]
           IN  /\ last.err = "none"
               /\ ~last.ret.none
               /\ id \in DOMAIN objs[o].instances
               /\ LET i == objs[o].instances[id] IN
                   /\ insts[i].cls = "create" /\ insts[i].id = id
                   /\ {k \in DOMAIN objs[o].instances : objs[o].instances[k] = i} = {id}
                   /\ last.ret.dict = insts[i].resources
                   /\ insts[i].resources # EmptyDict
                   /\ \A h \in Values(insts[i].resources) :
                         IsData(res[h]) => /\ res[h].object_id = objs[o].id
                                           /\ res[h].instance_id = id

\* C34 witness: create has registered instance 1 itself in an object that
\* held instance 0, and create_callback has returned callbacks.
C34_Witness ==
    /\ WasCreate /\ last.invoked = <<"create">> /\ last.hook = "registers"
    /\ last.args = <<1>>
    /\ DOMAIN objs[last.h].instances = {0, 1}
    /\ last.ret.dict # EmptyDict

\* C35: every call a value setter makes on the client that reaches the
\* engine names an address at which the client holds the resource whose
\* value the setter was given: none names an instance that delete_callback
\* has taken out of its object, or an object the client does not hold.
C35_NotifiedAddressResolves ==
    (last.op # "ResourceValChanged")
        => \A k \in 1..Len(last.forwarded) :
              Index(last.forwarded[k].object_id, last.forwarded[k].instance_id,
                    last.forwarded[k].id)
                = [err |-> "none", h |-> last.h]

\* The engine object is created in this step.
EngineCreated == ~engine /\ engine'

\* C36: when the _register of a start raises (an id the client holds, or an
\* item that is no Object), that start creates no engine and hands over no
\* callback, and a thread it ran on has ended; the engine is only ever
\* created by a start whose _register has returned, and is then given the
\* callbacks of every object the client holds at that moment and of every
\* resource of their instances; and as long as no engine exists no call on
\* the client reaches one.
C36_FailedStartCreatesNoEngine ==
    /\ [][/\ (last'.op \in {"StartLwm2m", "Lwm2mThread._register"} /\ last'.err # "none")
                => /\ ~engine'
                   /\ wired' = wired
                   /\ (last'.op = "Lwm2mThread._register" => thread'.pc = "ended")
          /\ EngineCreated
               => /\ \/ last'.op = "StartLwm2m" /\ last'.err = "none"
                     \/ last'.op = "Lwm2mThread.StartLwm2m" /\ thread.pc = "registered"
                  /\ wired'.objects = Values(my_objects')
                  /\ wired'.resources
                       = UNION {Values(insts'[i].resources) :
                                  i \in UNION {Values(objs'[o].instances) :
                                                 o \in Values(my_objects')}}
          ]_vars
    /\ [](thread.pc = "ended" => ~engine)
    /\ [](~engine => last.forwarded = <<>>)

\* C36 witness: after the _register of the thread of StartLwm2mThread
\* raised, the application has called ResourceValChanged with the address of
\* a resource, and the call has reached no engine.
C36_Witness ==
    /\ WasNotify /\ thread.pc = "ended" /\ ~engine
    /\ last.forwarded = <<>>
    /\ \E h \in 1..Len(res) :
          last.args = <<res[h].object_id, res[h].instance_id, res[h].id>>

\* C37: on an object with a default instance class (and no create of its
\* own), create_callback(id) for an id the object does not hold, whether or
\* not it held and lost one before, returns callbacks and leaves under id an
\* instance that did not exist before, all of whose resources did not exist
\* before and hold the initial value 0 the class gives them; and a
\* delete_callback(id) that follows a create_callback(id) that made an
\* instance returns True and leaves the object with the instances it held
\* before the create_callback.
C37_RecreateIsFresh ==
    [][/\ (last'.op = "create_callback" /\ objs[last'.h].default_instance_cls
             /\ ~objs[last'.h].create
             /\ last'.args[1] \notin DOMAIN objs[last'.h].instances)
            => /\ ~last'.ret.none
               /\ last'.args[1] \in DOMAIN objs'[last'.h].instances
               /\ LET i == objs'[last'.h].instances[last'.args[1]] IN
                   /\ i \notin DOMAIN insts
                   /\ insts'[i].resources # EmptyDict
                   /\ \A h \in Values(insts'[i].resources) :
                         h \notin DOMAIN res /\ res'[h].value = PyInt(0)
       /\ (last'.op = "delete_callback" /\ last.op = "create_callback" /\ ~last.ret.none
             /\ last'.h = last.h /\ last'.args = last.args)
            => /\ last'.out = PyBool(TRUE)
               /\ objs'[last'.h].instances = last.held]_vars

\* C37 witness: create_callback has made a second instance under the id of
\* one that delete_callback took out after the engine had written 1 to its
\* resource; the resource of the new one holds 0.
C37_Witness ==
    /\ WasCreate /\ ~last.ret.none
    /\ objs[last.h].default_instance_cls /\ ~objs[last.h].create
    /\ Len(insts) = 2 /\ insts[1].id = insts[2].id
    /\ objs[last.h].instances = Put(EmptyDict, insts[2].id, 2)
    /\ Len(res) = 2
    /\ res[1].value = PyInt(1)
    /\ res[2].value = PyInt(0)

====
